---- MODULE Spec2Model ----
(***************************************************************************)
(* A model of the AWS Resource Governor Lambda (src/lambda_function.py):   *)
(* lambda_handler walks the allowed regions, process_region builds the two *)
(* region clients and runs stop_idle_instances and scale_down_asgs, and    *)
(* the handler merges each region's result into aggregate_results.         *)
(*                                                                         *)
(* Text is modelled by what it is made of.  Report entries and error       *)
(* messages are TLA+ strings built with \o as the f-strings build them.    *)
(* The ALLOWED_REGIONS value and the tag values are sequences of           *)
(* characters, a character being its Unicode code point, so that           *)
(* split(','), strip() and lower() are computed character by character.    *)
(*                                                                         *)
(* Every call of the provider API either returns or raises; which one is   *)
(* chosen freely at each call, up to MaxFailures raised calls.             *)
(***************************************************************************)
EXTENDS Integers, Sequences, FiniteSets, TLC

\* ------------------------------------------------------------------ bounds

\* Longest ALLOWED_REGIONS value, in pieces (a region word, a comma, or one
\* whitespace character).
MaxEnvLen == 5

\* Most provider calls that raise, over the whole behaviour.
MaxFailures == 2

\* Most invocations of the handler in succession.
MaxInvocations == 2

\* ------------------------------------------------------- the provider's world

Regions == {"us-east-1", "eu-west-1"}

\* Enumeration order of the instances the provider holds in each region.
InstanceOrder ==
  [r \in Regions |->
     IF r = "us-east-1" THEN <<"i-1", "i-2">> ELSE <<"i-3">>]

InstanceIds == {"i-1", "i-2", "i-3"}

\* Listing order of the groups of each region, page by page.  A group is
\* known by its region and name: both regions hold a group named asg-a.
AsgPages ==
  [r \in Regions |->
     IF r = "us-east-1" THEN << <<"asg-a">>, <<"asg-b">> >>
                        ELSE << <<"asg-a">> >>]

AsgKeys ==
  {<<"us-east-1", "asg-a">>, <<"us-east-1", "asg-b">>, <<"eu-west-1", "asg-a">>}

GovernanceKey == "ResourceGovernance"

NoTags == << >>

Tag(key, value) == << [Key |-> key, Value |-> value] >>

\* 'keep'
keep == <<107, 101, 101, 112>>

\* 'KeEp'
MixedKeep == <<75, 101, 69, 112>>

\* 'KeEp' written with U+212A KELVIN SIGN for its first letter
KelvinKeep == <<8490, 101, 69, 112>>

\* 'kept'
kept == <<107, 101, 112, 116>>

InstanceRec(state, apistop, tags) ==
  [State |-> state, DisableApiStop |-> apistop, Tags |-> tags]

Unprotected == InstanceRec("running", FALSE, NoTags)

InstanceChoices(i) ==
  IF i = "i-1"
  THEN { Unprotected,
         InstanceRec("running", TRUE, NoTags),
         InstanceRec("running", FALSE, Tag(GovernanceKey, KelvinKeep)),
         InstanceRec("stopped", FALSE, NoTags) }
  ELSE IF i = "i-2"
  THEN { InstanceRec("running", FALSE, Tag(GovernanceKey, kept)) }
  ELSE { InstanceRec("running", FALSE, Tag("Name", keep)) }

AsgRec(min, max, desired, tags) ==
  [MinSize |-> min, MaxSize |-> max, DesiredCapacity |-> desired, Tags |-> tags]

AsgChoices(k) ==
  IF k = <<"us-east-1", "asg-a">>
  THEN { AsgRec(1, 3, 2, NoTags),
         AsgRec(0, 3, 0, NoTags),
         AsgRec(1, 3, 2, Tag(GovernanceKey, MixedKeep)) }
  ELSE IF k = <<"us-east-1", "asg-b">>
  THEN { AsgRec(0, 2, 1, NoTags) }
  ELSE { AsgRec(2, 5, 3, NoTags),
         AsgRec(0, 5, 0, Tag(GovernanceKey, keep)) }

\* ------------------------------------------------------------ text helpers

\* dict.get(key, default)
Get(d, k, default) == IF k \in DOMAIN d THEN d[k] ELSE default

\* str.lower(), one character at a time: the characters whose lower case is
\* one other character, as <<first, last, step, offset>>: every step-th
\* character from first to last is lowered by adding offset.
LowerRanges ==
  <<
    <<65, 90, 1, 32>>, <<192, 214, 1, 32>>, <<216, 222, 1, 32>>,
    <<256, 302, 2, 1>>, <<306, 310, 2, 1>>, <<313, 327, 2, 1>>,
    <<330, 374, 2, 1>>, <<376, 376, 1, -121>>, <<377, 381, 2, 1>>,
    <<385, 385, 1, 210>>, <<386, 388, 2, 1>>, <<390, 390, 1, 206>>,
    <<391, 391, 1, 1>>, <<393, 394, 1, 205>>, <<395, 395, 1, 1>>,
    <<398, 398, 1, 79>>, <<399, 399, 1, 202>>, <<400, 400, 1, 203>>,
    <<401, 401, 1, 1>>, <<403, 403, 1, 205>>, <<404, 404, 1, 207>>,
    <<406, 406, 1, 211>>, <<407, 407, 1, 209>>, <<408, 408, 1, 1>>,
    <<412, 412, 1, 211>>, <<413, 413, 1, 213>>, <<415, 415, 1, 214>>,
    <<416, 420, 2, 1>>, <<422, 422, 1, 218>>, <<423, 423, 1, 1>>,
    <<425, 425, 1, 218>>, <<428, 428, 1, 1>>, <<430, 430, 1, 218>>,
    <<431, 431, 1, 1>>, <<433, 434, 1, 217>>, <<435, 437, 2, 1>>,
    <<439, 439, 1, 219>>, <<440, 440, 1, 1>>, <<444, 444, 1, 1>>,
    <<452, 452, 1, 2>>, <<453, 453, 1, 1>>, <<455, 455, 1, 2>>,
    <<456, 456, 1, 1>>, <<458, 458, 1, 2>>, <<459, 475, 2, 1>>,
    <<478, 494, 2, 1>>, <<497, 497, 1, 2>>, <<498, 500, 2, 1>>,
    <<502, 502, 1, -97>>, <<503, 503, 1, -56>>, <<504, 542, 2, 1>>,
    <<544, 544, 1, -130>>, <<546, 562, 2, 1>>, <<570, 570, 1, 10795>>,
    <<571, 571, 1, 1>>, <<573, 573, 1, -163>>, <<574, 574, 1, 10792>>,
    <<577, 577, 1, 1>>, <<579, 579, 1, -195>>, <<580, 580, 1, 69>>,
    <<581, 581, 1, 71>>, <<582, 590, 2, 1>>, <<880, 882, 2, 1>>,
    <<886, 886, 1, 1>>, <<895, 895, 1, 116>>, <<902, 902, 1, 38>>,
    <<904, 906, 1, 37>>, <<908, 908, 1, 64>>, <<910, 911, 1, 63>>,
    <<913, 929, 1, 32>>, <<931, 939, 1, 32>>, <<975, 975, 1, 8>>,
    <<984, 1006, 2, 1>>, <<1012, 1012, 1, -60>>, <<1015, 1015, 1, 1>>,
    <<1017, 1017, 1, -7>>, <<1018, 1018, 1, 1>>, <<1021, 1023, 1, -130>>,
    <<1024, 1039, 1, 80>>, <<1040, 1071, 1, 32>>, <<1120, 1152, 2, 1>>,
    <<1162, 1214, 2, 1>>, <<1216, 1216, 1, 15>>, <<1217, 1229, 2, 1>>,
    <<1232, 1326, 2, 1>>, <<1329, 1366, 1, 48>>, <<4256, 4293, 1, 7264>>,
    <<4295, 4295, 1, 7264>>, <<4301, 4301, 1, 7264>>, <<5024, 5103, 1, 38864>>,
    <<5104, 5109, 1, 8>>, <<7312, 7354, 1, -3008>>, <<7357, 7359, 1, -3008>>,
    <<7680, 7828, 2, 1>>, <<7838, 7838, 1, -7615>>, <<7840, 7934, 2, 1>>,
    <<7944, 7951, 1, -8>>, <<7960, 7965, 1, -8>>, <<7976, 7983, 1, -8>>,
    <<7992, 7999, 1, -8>>, <<8008, 8013, 1, -8>>, <<8025, 8031, 2, -8>>,
    <<8040, 8047, 1, -8>>, <<8072, 8079, 1, -8>>, <<8088, 8095, 1, -8>>,
    <<8104, 8111, 1, -8>>, <<8120, 8121, 1, -8>>, <<8122, 8123, 1, -74>>,
    <<8124, 8124, 1, -9>>, <<8136, 8139, 1, -86>>, <<8140, 8140, 1, -9>>,
    <<8152, 8153, 1, -8>>, <<8154, 8155, 1, -100>>, <<8168, 8169, 1, -8>>,
    <<8170, 8171, 1, -112>>, <<8172, 8172, 1, -7>>, <<8184, 8185, 1, -128>>,
    <<8186, 8187, 1, -126>>, <<8188, 8188, 1, -9>>, <<8486, 8486, 1, -7517>>,
    <<8490, 8490, 1, -8383>>, <<8491, 8491, 1, -8262>>, <<8498, 8498, 1, 28>>,
    <<8544, 8559, 1, 16>>, <<8579, 8579, 1, 1>>, <<9398, 9423, 1, 26>>,
    <<11264, 11311, 1, 48>>, <<11360, 11360, 1, 1>>, <<11362, 11362, 1, -10743>>,
    <<11363, 11363, 1, -3814>>, <<11364, 11364, 1, -10727>>, <<11367, 11371, 2, 1>>,
    <<11373, 11373, 1, -10780>>, <<11374, 11374, 1, -10749>>, <<11375, 11375, 1, -10783>>,
    <<11376, 11376, 1, -10782>>, <<11378, 11378, 1, 1>>, <<11381, 11381, 1, 1>>,
    <<11390, 11391, 1, -10815>>, <<11392, 11490, 2, 1>>, <<11499, 11501, 2, 1>>,
    <<11506, 11506, 1, 1>>, <<42560, 42604, 2, 1>>, <<42624, 42650, 2, 1>>,
    <<42786, 42798, 2, 1>>, <<42802, 42862, 2, 1>>, <<42873, 42875, 2, 1>>,
    <<42877, 42877, 1, -35332>>, <<42878, 42886, 2, 1>>, <<42891, 42891, 1, 1>>,
    <<42893, 42893, 1, -42280>>, <<42896, 42898, 2, 1>>, <<42902, 42920, 2, 1>>,
    <<42922, 42922, 1, -42308>>, <<42923, 42923, 1, -42319>>, <<42924, 42924, 1, -42315>>,
    <<42925, 42925, 1, -42305>>, <<42926, 42926, 1, -42308>>, <<42928, 42928, 1, -42258>>,
    <<42929, 42929, 1, -42282>>, <<42930, 42930, 1, -42261>>, <<42931, 42931, 1, 928>>,
    <<42932, 42946, 2, 1>>, <<42948, 42948, 1, -48>>, <<42949, 42949, 1, -42307>>,
    <<42950, 42950, 1, -35384>>, <<42951, 42953, 2, 1>>, <<42960, 42960, 1, 1>>,
    <<42966, 42968, 2, 1>>, <<42997, 42997, 1, 1>>, <<65313, 65338, 1, 32>>,
    <<66560, 66599, 1, 40>>, <<66736, 66771, 1, 40>>, <<66928, 66938, 1, 39>>,
    <<66940, 66954, 1, 39>>, <<66956, 66962, 1, 39>>, <<66964, 66965, 1, 39>>,
    <<68736, 68786, 1, 64>>, <<71840, 71871, 1, 32>>, <<93760, 93791, 1, 32>>,
    <<125184, 125217, 1, 34>>
  >>

InRange(c, r) == r[1] <= c /\ c <= r[2] /\ (c - r[1]) % r[3] = 0

\* str.lower() of one character, as a text: U+0130 gives two characters;
\* an ASCII character other than A..Z is kept; the rest is in LowerRanges.
LowerChar(c) ==
  IF c = 304 THEN <<105, 775>>
  ELSE IF c < 128 THEN (IF c \in 65..90 THEN << c + 32 >> ELSE << c >>)
  ELSE IF \E i \in DOMAIN LowerRanges : InRange(c, LowerRanges[i])
  THEN << c + LowerRanges[CHOOSE i \in DOMAIN LowerRanges :
                             InRange(c, LowerRanges[i])][4] >>
  ELSE << c >>

\* The case-ignorable characters, as <<first, last>>.
CaseIgnorableRanges ==
  <<
    <<39, 39>>, <<46, 46>>, <<58, 58>>, <<94, 94>>,
    <<96, 96>>, <<168, 168>>, <<173, 173>>, <<175, 175>>,
    <<180, 180>>, <<183, 184>>, <<688, 879>>, <<884, 885>>,
    <<890, 890>>, <<900, 901>>, <<903, 903>>, <<1155, 1161>>,
    <<1369, 1369>>, <<1375, 1375>>, <<1425, 1469>>, <<1471, 1471>>,
    <<1473, 1474>>, <<1476, 1477>>, <<1479, 1479>>, <<1524, 1524>>,
    <<1536, 1541>>, <<1552, 1562>>, <<1564, 1564>>, <<1600, 1600>>,
    <<1611, 1631>>, <<1648, 1648>>, <<1750, 1757>>, <<1759, 1768>>,
    <<1770, 1773>>, <<1807, 1807>>, <<1809, 1809>>, <<1840, 1866>>,
    <<1958, 1968>>, <<2027, 2037>>, <<2042, 2042>>, <<2045, 2045>>,
    <<2070, 2093>>, <<2137, 2139>>, <<2184, 2184>>, <<2192, 2193>>,
    <<2200, 2207>>, <<2249, 2306>>, <<2362, 2362>>, <<2364, 2364>>,
    <<2369, 2376>>, <<2381, 2381>>, <<2385, 2391>>, <<2402, 2403>>,
    <<2417, 2417>>, <<2433, 2433>>, <<2492, 2492>>, <<2497, 2500>>,
    <<2509, 2509>>, <<2530, 2531>>, <<2558, 2558>>, <<2561, 2562>>,
    <<2620, 2620>>, <<2625, 2626>>, <<2631, 2632>>, <<2635, 2637>>,
    <<2641, 2641>>, <<2672, 2673>>, <<2677, 2677>>, <<2689, 2690>>,
    <<2748, 2748>>, <<2753, 2757>>, <<2759, 2760>>, <<2765, 2765>>,
    <<2786, 2787>>, <<2810, 2815>>, <<2817, 2817>>, <<2876, 2876>>,
    <<2879, 2879>>, <<2881, 2884>>, <<2893, 2893>>, <<2901, 2902>>,
    <<2914, 2915>>, <<2946, 2946>>, <<3008, 3008>>, <<3021, 3021>>,
    <<3072, 3072>>, <<3076, 3076>>, <<3132, 3132>>, <<3134, 3136>>,
    <<3142, 3144>>, <<3146, 3149>>, <<3157, 3158>>, <<3170, 3171>>,
    <<3201, 3201>>, <<3260, 3260>>, <<3263, 3263>>, <<3270, 3270>>,
    <<3276, 3277>>, <<3298, 3299>>, <<3328, 3329>>, <<3387, 3388>>,
    <<3393, 3396>>, <<3405, 3405>>, <<3426, 3427>>, <<3457, 3457>>,
    <<3530, 3530>>, <<3538, 3540>>, <<3542, 3542>>, <<3633, 3633>>,
    <<3636, 3642>>, <<3654, 3662>>, <<3761, 3761>>, <<3764, 3772>>,
    <<3782, 3782>>, <<3784, 3789>>, <<3864, 3865>>, <<3893, 3893>>,
    <<3895, 3895>>, <<3897, 3897>>, <<3953, 3966>>, <<3968, 3972>>,
    <<3974, 3975>>, <<3981, 3991>>, <<3993, 4028>>, <<4038, 4038>>,
    <<4141, 4144>>, <<4146, 4151>>, <<4153, 4154>>, <<4157, 4158>>,
    <<4184, 4185>>, <<4190, 4192>>, <<4209, 4212>>, <<4226, 4226>>,
    <<4229, 4230>>, <<4237, 4237>>, <<4253, 4253>>, <<4348, 4348>>,
    <<4957, 4959>>, <<5906, 5908>>, <<5938, 5939>>, <<5970, 5971>>,
    <<6002, 6003>>, <<6068, 6069>>, <<6071, 6077>>, <<6086, 6086>>,
    <<6089, 6099>>, <<6103, 6103>>, <<6109, 6109>>, <<6155, 6159>>,
    <<6211, 6211>>, <<6277, 6278>>, <<6313, 6313>>, <<6432, 6434>>,
    <<6439, 6440>>, <<6450, 6450>>, <<6457, 6459>>, <<6679, 6680>>,
    <<6683, 6683>>, <<6742, 6742>>, <<6744, 6750>>, <<6752, 6752>>,
    <<6754, 6754>>, <<6757, 6764>>, <<6771, 6780>>, <<6783, 6783>>,
    <<6823, 6823>>, <<6832, 6862>>, <<6912, 6915>>, <<6964, 6964>>,
    <<6966, 6970>>, <<6972, 6972>>, <<6978, 6978>>, <<7019, 7027>>,
    <<7040, 7041>>, <<7074, 7077>>, <<7080, 7081>>, <<7083, 7085>>,
    <<7142, 7142>>, <<7144, 7145>>, <<7149, 7149>>, <<7151, 7153>>,
    <<7212, 7219>>, <<7222, 7223>>, <<7288, 7293>>, <<7376, 7378>>,
    <<7380, 7392>>, <<7394, 7400>>, <<7405, 7405>>, <<7412, 7412>>,
    <<7416, 7417>>, <<7468, 7530>>, <<7544, 7544>>, <<7579, 7679>>,
    <<8125, 8125>>, <<8127, 8129>>, <<8141, 8143>>, <<8157, 8159>>,
    <<8173, 8175>>, <<8189, 8190>>, <<8203, 8207>>, <<8216, 8217>>,
    <<8228, 8228>>, <<8231, 8231>>, <<8234, 8238>>, <<8288, 8292>>,
    <<8294, 8303>>, <<8305, 8305>>, <<8319, 8319>>, <<8336, 8348>>,
    <<8400, 8432>>, <<11388, 11389>>, <<11503, 11505>>, <<11631, 11631>>,
    <<11647, 11647>>, <<11744, 11775>>, <<11823, 11823>>, <<12293, 12293>>,
    <<12330, 12333>>, <<12337, 12341>>, <<12347, 12347>>, <<12441, 12446>>,
    <<12540, 12542>>, <<40981, 40981>>, <<42232, 42237>>, <<42508, 42508>>,
    <<42607, 42610>>, <<42612, 42621>>, <<42623, 42623>>, <<42652, 42655>>,
    <<42736, 42737>>, <<42752, 42785>>, <<42864, 42864>>, <<42888, 42890>>,
    <<42994, 42996>>, <<43000, 43001>>, <<43010, 43010>>, <<43014, 43014>>,
    <<43019, 43019>>, <<43045, 43046>>, <<43052, 43052>>, <<43204, 43205>>,
    <<43232, 43249>>, <<43263, 43263>>, <<43302, 43309>>, <<43335, 43345>>,
    <<43392, 43394>>, <<43443, 43443>>, <<43446, 43449>>, <<43452, 43453>>,
    <<43471, 43471>>, <<43493, 43494>>, <<43561, 43566>>, <<43569, 43570>>,
    <<43573, 43574>>, <<43587, 43587>>, <<43596, 43596>>, <<43632, 43632>>,
    <<43644, 43644>>, <<43696, 43696>>, <<43698, 43700>>, <<43703, 43704>>,
    <<43710, 43711>>, <<43713, 43713>>, <<43741, 43741>>, <<43756, 43757>>,
    <<43763, 43764>>, <<43766, 43766>>, <<43867, 43871>>, <<43881, 43883>>,
    <<44005, 44005>>, <<44008, 44008>>, <<44013, 44013>>, <<64286, 64286>>,
    <<64434, 64450>>, <<65024, 65039>>, <<65043, 65043>>, <<65056, 65071>>,
    <<65106, 65106>>, <<65109, 65109>>, <<65279, 65279>>, <<65287, 65287>>,
    <<65294, 65294>>, <<65306, 65306>>, <<65342, 65342>>, <<65344, 65344>>,
    <<65392, 65392>>, <<65438, 65439>>, <<65507, 65507>>, <<65529, 65531>>,
    <<66045, 66045>>, <<66272, 66272>>, <<66422, 66426>>, <<67456, 67461>>,
    <<67463, 67504>>, <<67506, 67514>>, <<68097, 68099>>, <<68101, 68102>>,
    <<68108, 68111>>, <<68152, 68154>>, <<68159, 68159>>, <<68325, 68326>>,
    <<68900, 68903>>, <<69291, 69292>>, <<69446, 69456>>, <<69506, 69509>>,
    <<69633, 69633>>, <<69688, 69702>>, <<69744, 69744>>, <<69747, 69748>>,
    <<69759, 69761>>, <<69811, 69814>>, <<69817, 69818>>, <<69821, 69821>>,
    <<69826, 69826>>, <<69837, 69837>>, <<69888, 69890>>, <<69927, 69931>>,
    <<69933, 69940>>, <<70003, 70003>>, <<70016, 70017>>, <<70070, 70078>>,
    <<70089, 70092>>, <<70095, 70095>>, <<70191, 70193>>, <<70196, 70196>>,
    <<70198, 70199>>, <<70206, 70206>>, <<70367, 70367>>, <<70371, 70378>>,
    <<70400, 70401>>, <<70459, 70460>>, <<70464, 70464>>, <<70502, 70508>>,
    <<70512, 70516>>, <<70712, 70719>>, <<70722, 70724>>, <<70726, 70726>>,
    <<70750, 70750>>, <<70835, 70840>>, <<70842, 70842>>, <<70847, 70848>>,
    <<70850, 70851>>, <<71090, 71093>>, <<71100, 71101>>, <<71103, 71104>>,
    <<71132, 71133>>, <<71219, 71226>>, <<71229, 71229>>, <<71231, 71232>>,
    <<71339, 71339>>, <<71341, 71341>>, <<71344, 71349>>, <<71351, 71351>>,
    <<71453, 71455>>, <<71458, 71461>>, <<71463, 71467>>, <<71727, 71735>>,
    <<71737, 71738>>, <<71995, 71996>>, <<71998, 71998>>, <<72003, 72003>>,
    <<72148, 72151>>, <<72154, 72155>>, <<72160, 72160>>, <<72193, 72202>>,
    <<72243, 72248>>, <<72251, 72254>>, <<72263, 72263>>, <<72273, 72278>>,
    <<72281, 72283>>, <<72330, 72342>>, <<72344, 72345>>, <<72752, 72758>>,
    <<72760, 72765>>, <<72767, 72767>>, <<72850, 72871>>, <<72874, 72880>>,
    <<72882, 72883>>, <<72885, 72886>>, <<73009, 73014>>, <<73018, 73018>>,
    <<73020, 73021>>, <<73023, 73029>>, <<73031, 73031>>, <<73104, 73105>>,
    <<73109, 73109>>, <<73111, 73111>>, <<73459, 73460>>, <<78896, 78904>>,
    <<92912, 92916>>, <<92976, 92982>>, <<92992, 92995>>, <<94031, 94031>>,
    <<94095, 94111>>, <<94176, 94177>>, <<94179, 94180>>, <<110576, 110579>>,
    <<110581, 110587>>, <<110589, 110590>>, <<113821, 113822>>, <<113824, 113827>>,
    <<118528, 118573>>, <<118576, 118598>>, <<119143, 119145>>, <<119155, 119170>>,
    <<119173, 119179>>, <<119210, 119213>>, <<119362, 119364>>, <<121344, 121398>>,
    <<121403, 121452>>, <<121461, 121461>>, <<121476, 121476>>, <<121499, 121503>>,
    <<121505, 121519>>, <<122880, 122886>>, <<122888, 122904>>, <<122907, 122913>>,
    <<122915, 122916>>, <<122918, 122922>>, <<123184, 123197>>, <<123566, 123566>>,
    <<123628, 123631>>, <<125136, 125142>>, <<125252, 125259>>, <<127995, 127999>>,
    <<917505, 917505>>, <<917536, 917631>>, <<917760, 917999>>
  >>

\* The cased characters that are not case-ignorable, as <<first, last>>.
CasedRanges ==
  <<
    <<65, 90>>, <<97, 122>>, <<170, 170>>, <<181, 181>>,
    <<186, 186>>, <<192, 214>>, <<216, 246>>, <<248, 442>>,
    <<444, 447>>, <<452, 659>>, <<661, 687>>, <<880, 883>>,
    <<886, 887>>, <<891, 893>>, <<895, 895>>, <<902, 902>>,
    <<904, 906>>, <<908, 908>>, <<910, 929>>, <<931, 1013>>,
    <<1015, 1153>>, <<1162, 1327>>, <<1329, 1366>>, <<1376, 1416>>,
    <<4256, 4293>>, <<4295, 4295>>, <<4301, 4301>>, <<4304, 4346>>,
    <<4349, 4351>>, <<5024, 5109>>, <<5112, 5117>>, <<7296, 7304>>,
    <<7312, 7354>>, <<7357, 7359>>, <<7424, 7467>>, <<7531, 7543>>,
    <<7545, 7578>>, <<7680, 7957>>, <<7960, 7965>>, <<7968, 8005>>,
    <<8008, 8013>>, <<8016, 8023>>, <<8025, 8025>>, <<8027, 8027>>,
    <<8029, 8029>>, <<8031, 8061>>, <<8064, 8116>>, <<8118, 8124>>,
    <<8126, 8126>>, <<8130, 8132>>, <<8134, 8140>>, <<8144, 8147>>,
    <<8150, 8155>>, <<8160, 8172>>, <<8178, 8180>>, <<8182, 8188>>,
    <<8450, 8450>>, <<8455, 8455>>, <<8458, 8467>>, <<8469, 8469>>,
    <<8473, 8477>>, <<8484, 8484>>, <<8486, 8486>>, <<8488, 8488>>,
    <<8490, 8493>>, <<8495, 8500>>, <<8505, 8505>>, <<8508, 8511>>,
    <<8517, 8521>>, <<8526, 8526>>, <<8544, 8575>>, <<8579, 8580>>,
    <<9398, 9449>>, <<11264, 11387>>, <<11390, 11492>>, <<11499, 11502>>,
    <<11506, 11507>>, <<11520, 11557>>, <<11559, 11559>>, <<11565, 11565>>,
    <<42560, 42605>>, <<42624, 42651>>, <<42786, 42863>>, <<42865, 42887>>,
    <<42891, 42894>>, <<42896, 42954>>, <<42960, 42961>>, <<42963, 42963>>,
    <<42965, 42969>>, <<42997, 42998>>, <<43002, 43002>>, <<43824, 43866>>,
    <<43872, 43880>>, <<43888, 43967>>, <<64256, 64262>>, <<64275, 64279>>,
    <<65313, 65338>>, <<65345, 65370>>, <<66560, 66639>>, <<66736, 66771>>,
    <<66776, 66811>>, <<66928, 66938>>, <<66940, 66954>>, <<66956, 66962>>,
    <<66964, 66965>>, <<66967, 66977>>, <<66979, 66993>>, <<66995, 67001>>,
    <<67003, 67004>>, <<68736, 68786>>, <<68800, 68850>>, <<71840, 71903>>,
    <<93760, 93823>>, <<119808, 119892>>, <<119894, 119964>>, <<119966, 119967>>,
    <<119970, 119970>>, <<119973, 119974>>, <<119977, 119980>>, <<119982, 119993>>,
    <<119995, 119995>>, <<119997, 120003>>, <<120005, 120069>>, <<120071, 120074>>,
    <<120077, 120084>>, <<120086, 120092>>, <<120094, 120121>>, <<120123, 120126>>,
    <<120128, 120132>>, <<120134, 120134>>, <<120138, 120144>>, <<120146, 120485>>,
    <<120488, 120512>>, <<120514, 120538>>, <<120540, 120570>>, <<120572, 120596>>,
    <<120598, 120628>>, <<120630, 120654>>, <<120656, 120686>>, <<120688, 120712>>,
    <<120714, 120744>>, <<120746, 120770>>, <<120772, 120779>>, <<122624, 122633>>,
    <<122635, 122654>>, <<125184, 125251>>, <<127280, 127305>>, <<127312, 127337>>,
    <<127344, 127369>>
  >>

IsCaseIgnorable(c) ==
  \E i \in DOMAIN CaseIgnorableRanges :
     CaseIgnorableRanges[i][1] <= c /\ c <= CaseIgnorableRanges[i][2]

IsCased(c) ==
  \E i \in DOMAIN CasedRanges : CasedRanges[i][1] <= c /\ c <= CasedRanges[i][2]

Highest(S) == CHOOSE x \in S : \A y \in S : y <= x

Lowest(S) == CHOOSE x \in S : \A y \in S : x <= y

\* The capital sigma at position i is a final one: the nearest character
\* before it that is not case-ignorable is cased, and the nearest one after
\* it, if any, is not.
FinalSigma(s, i) ==
  LET before == { j \in 1..(i - 1) : ~IsCaseIgnorable(s[j]) }
      after  == { j \in (i + 1)..Len(s) : ~IsCaseIgnorable(s[j]) }
  IN  /\ before # {}
      /\ IsCased(s[Highest(before)])
      /\ after = {} \/ ~IsCased(s[Lowest(after)])

RECURSIVE LowerFrom(_, _)
LowerFrom(s, i) ==
  IF i > Len(s) THEN << >>
  ELSE (IF s[i] = 931
        THEN (IF FinalSigma(s, i) THEN << 962 >> ELSE << 963 >>)
        ELSE LowerChar(s[i]))
       \o LowerFrom(s, i + 1)

\* str.lower()
lower(s) == LowerFrom(s, 1)

\* The characters str.strip() removes.
Whitespace ==
  { 9, 10, 11, 12, 13, 28, 29, 30, 31, 32, 133, 160, 5760, 8192, 8193,
    8194, 8195, 8196, 8197, 8198, 8199, 8200, 8201, 8202, 8232, 8233, 8239, 8287, 12288 }

IsSpace(c) == c \in Whitespace

RECURSIVE lstrip(_)
lstrip(s) == IF s # << >> /\ IsSpace(Head(s)) THEN lstrip(Tail(s)) ELSE s

RECURSIVE rstrip(_)
rstrip(s) ==
  IF s # << >> /\ IsSpace(s[Len(s)]) THEN rstrip(SubSeq(s, 1, Len(s) - 1)) ELSE s

\* str.strip()
strip(s) == rstrip(lstrip(s))

\* str.split(sep): the fields between the separators, empty ones included.
RECURSIVE split(_, _)
split(s, sep) ==
  IF \A i \in DOMAIN s : s[i] # sep
  THEN << s >>
  ELSE LET k == CHOOSE i \in DOMAIN s :
                  s[i] = sep /\ \A j \in 1..(i - 1) : s[j] # sep
       IN  << SubSeq(s, 1, k - 1) >> \o split(SubSeq(s, k + 1, Len(s)), sep)

\* The sequences of a sequence put end to end.
RECURSIVE Flatten(_)
Flatten(pages) == IF pages = << >> THEN << >> ELSE Head(pages) \o Flatten(Tail(pages))

\* The characters of a region's name.
Chars(r) ==
  IF r = "us-east-1" THEN <<117, 115, 45, 101, 97, 115, 116, 45, 49>>
                     ELSE <<101, 117, 45, 119, 101, 115, 116, 45, 49>>

\* The region whose name is made of these characters.
Text(s) == CHOOSE r \in Regions : Chars(r) = s

\* ------------------------------------------------------ get_allowed_regions

\* 'us-east-1'
DefaultRegions == Chars("us-east-1")

RECURSIVE StrippedNonEmpty(_)
StrippedNonEmpty(fields) ==
  IF fields = << >> THEN << >>
  ELSE (IF strip(Head(fields)) # << >>
        THEN << strip(Head(fields)) >> ELSE << >>)
       \o StrippedNonEmpty(Tail(fields))

\* Mutant of get_allowed_regions: an empty value falls back to the default
\* (os.environ.get('ALLOWED_REGIONS') or 'us-east-1').
get_allowed_regions_or_default(environ) ==
  LET value == Get(environ, "ALLOWED_REGIONS", << >>)
      allowed_regions_str == IF value = << >> THEN DefaultRegions ELSE value
  IN  StrippedNonEmpty(split(allowed_regions_str, 44))

\* The list of region names, each a sequence of characters; 44 is ','.
get_allowed_regions(environ) ==
  LET allowed_regions_str == Get(environ, "ALLOWED_REGIONS", DefaultRegions)
  IN  StrippedNonEmpty(split(allowed_regions_str, 44))

\* What an ALLOWED_REGIONS value is put together from: the region words, the
\* comma, and two of the whitespace characters (blank, U+3000).
EnvPieces == { Chars(r) : r \in Regions } \cup { <<44>>, <<32>>, <<12288>> }

EnvStrings ==
  { Flatten(p) : p \in UNION { [1..n -> EnvPieces] : n \in 0..MaxEnvLen } }

\* os.environ: ALLOWED_REGIONS unset, or set to a value naming known regions.
Environs ==
  { << >> } \cup
  { [ALLOWED_REGIONS |-> e] : e \in
      { s \in EnvStrings :
          LET names == get_allowed_regions([ALLOWED_REGIONS |-> s])
          IN  \A i \in DOMAIN names : names[i] \in { Chars(r) : r \in Regions } } }

\* ALLOWED_REGIONS is set, and its value is empty or made of commas and
\* whitespace only.
IsBlank(environ) ==
  /\ "ALLOWED_REGIONS" \in DOMAIN environ
  /\ \A j \in DOMAIN environ.ALLOWED_REGIONS :
        environ.ALLOWED_REGIONS[j] \in {44} \cup Whitespace

\* ------------------------------------------------------------ the state

VARIABLES
  pc,                 \* where the handler is
  invocation,         \* which invocation of the handler this is (1, 2, ...)
  allowed_regions,    \* lambda_handler: the parsed region list
  idx,                \* lambda_handler: position of the for loop in allowed_regions
  aggregate_results,  \* lambda_handler: the aggregate being built
  region_results,     \* process_region: the region's result
  stopped_instances,  \* stop_idle_instances: its result list
  response,           \* stop_idle_instances: the instances still to iterate
  scaled_down_asgs,   \* scale_down_asgs: its result list
  page_no,            \* scale_down_asgs: the next page the paginator fetches
  page,               \* scale_down_asgs: the groups of the page still to iterate
  exc,                \* str(e) of the exception being propagated, "" if none
  result,             \* what lambda_handler returned
  ec2,                \* the provider: every instance's state, flag and tags
  autoscaling,        \* the provider: every group's sizes and tags
  failures,           \* provider calls that raised, per invocation
  calls,              \* history: the stop and update calls of this invocation
  checks,             \* history: the protection checks of this region pass
  raises,             \* history: the client and listing calls that raised in this pass
  passes,             \* history: how process_region ended at each position
  blank_environ,      \* history: ALLOWED_REGIONS was set and named no region
  done_before         \* history: the resources whose stop or update call
                      \* returned in an earlier invocation

vars ==
  << pc, invocation, allowed_regions, idx, aggregate_results, region_results,
     stopped_instances, response, scaled_down_asgs, page_no, page, exc, result,
     ec2, autoscaling, failures, calls, checks, raises, passes, blank_environ,
     done_before >>

region == allowed_regions[idx]

NoResult == [statusCode |-> 0, body |-> << >>]

EmptyRegionResults ==
  [stopped_instances |-> << >>, scaled_down_asgs |-> << >>, errors |-> << >>]

EmptyAggregate ==
  [stopped_instances |-> << >>, scaled_down_asgs |-> << >>, errors |-> << >>,
   regions_processed |-> << >>]

RECURSIVE SumUpTo(_, _)
SumUpTo(f, n) == IF n = 0 THEN 0 ELSE f[n] + SumUpTo(f, n - 1)

Sum(f) == SumUpTo(f, Len(f))

\* The outcomes a provider call can have: it returns (TRUE) or raises (FALSE).
Outcomes == IF Sum(failures) < MaxFailures THEN BOOLEAN ELSE {TRUE}

Count(b) == IF b THEN 0 ELSE 1

Failed(n) == [failures EXCEPT ![invocation] = @ + n]

ClientError == "ClientError"

\* ------------------------------------------------- the provider's operations

\* ec2.describe_instances with the instance-state-name filter: the instances
\* of the region whose state is one of the given values, in enumeration order.
SelectInstances(state, r, values) ==
  SelectSeq(InstanceOrder[r], LAMBDA i : state[i].State \in values)

\* ec2.describe_instance_attribute(Attribute='disableApiStop')
describe_instance_attribute(state, i) ==
  [InstanceId |-> i, DisableApiStop |-> [Value |-> state[i].DisableApiStop]]

\* describe_tags with the key filter: the tags of the resource with that key.
describe_tags(tags, key) ==
  [Tags |-> SelectSeq(tags, LAMBDA t : t.Key = key)]

\* ec2.stop_instances, when it returns: the instance leaves the running state.
stop_instances(state, i) == [state EXCEPT ![i].State = "stopping"]

\* One page of describe_auto_scaling_groups: the groups as they are now.
describe_auto_scaling_groups(state, r, n) ==
  [AutoScalingGroups |->
     [j \in DOMAIN AsgPages[r][n] |->
        [AutoScalingGroupName |-> AsgPages[r][n][j],
         MinSize |-> state[<<r, AsgPages[r][n][j]>>].MinSize,
         MaxSize |-> state[<<r, AsgPages[r][n][j]>>].MaxSize,
         DesiredCapacity |-> state[<<r, AsgPages[r][n][j]>>].DesiredCapacity]]]

\* autoscaling.update_auto_scaling_group, when it returns: the group takes the
\* sizes of the request.
update_auto_scaling_group(state, r, request) ==
  [state EXCEPT ![<<r, request.AutoScalingGroupName>>] =
     [@ EXCEPT !.MinSize = request.MinSize,
               !.MaxSize = request.MaxSize,
               !.DesiredCapacity = request.DesiredCapacity]]

\* --------------------------------------------------------- the program's parts

\* Mutant of Catch: the enumeration of instances is inside no try, neither in
\* stop_idle_instances nor in process_region.
CatchNotInRegion(site) ==
  CASE site = "boto3.client" -> "lambda_except"
    [] site = "describe_instances" -> "lambda_except"
    [] site = "stop_instances" -> "stop_failed_except"
    [] site = "paginate" -> "scale_down_except"
    [] site = "update_auto_scaling_group" -> "update_failed_except"

\* Mutant of Catch: lambda_handler has no try around process_region, so an
\* exception of the client construction leaves the handler.
CatchNotInHandler(site) ==
  CASE site = "boto3.client" -> "unhandled"
    [] site = "describe_instances" -> "stop_idle_except"
    [] site = "stop_instances" -> "stop_failed_except"
    [] site = "paginate" -> "scale_down_except"
    [] site = "update_auto_scaling_group" -> "update_failed_except"

\* Mutant of Catch: the stop and update calls have no try of their own, so a
\* failed call ends the sweeper's loop.
CatchAbortsSweep(site) ==
  CASE site = "boto3.client" -> "lambda_except"
    [] site = "describe_instances" -> "stop_idle_except"
    [] site = "stop_instances" -> "stop_idle_except"
    [] site = "paginate" -> "scale_down_except"
    [] site = "update_auto_scaling_group" -> "scale_down_except"

\* Where control resumes when the call at `site` raises: the except clause of
\* the innermost try around it.
Catch(site) ==
  CASE site = "boto3.client" -> "lambda_except"
    [] site = "describe_instances" -> "stop_idle_except"
    [] site = "stop_instances" -> "stop_failed_except"
    [] site = "paginate" -> "scale_down_except"
    [] site = "update_auto_scaling_group" -> "update_failed_except"

\* A call's outcome as the caller sees it.
Returned(value) == [ok |-> TRUE, response |-> value]

Raised == [ok |-> FALSE, response |-> << >>]

\* Mutant of RunningFilter: the enumeration is not filtered by state.
AnyStateFilter == {"pending", "running", "stopping", "stopped"}

\* Mutant of RunningFilter: stopped instances are enumerated as well.
RunningOrStoppedFilter == {"running", "stopped"}

\* The Filters of describe_instances.
RunningFilter == {"running"}

\* response.get('DisableApiStop', {}).get('Value', False)
ApiStopValue(r) == Get(Get(r, "DisableApiStop", << >>), "Value", FALSE)

\* Mutant of HasKeepTag: the tag value is compared as it stands, not lowered.
HasKeepTagExact(r) ==
  \E j \in DOMAIN Get(r, "Tags", << >>) :
     Get(Get(r, "Tags", << >>)[j], "Value", << >>) = keep

\* any tag of the response whose value, lowered, is 'keep'
HasKeepTag(r) ==
  \E j \in DOMAIN Get(r, "Tags", << >>) :
     lower(Get(Get(r, "Tags", << >>)[j], "Value", << >>)) = keep

\* Mutant of is_instance_stop_protected: a query that raised counts as "not
\* protected" (the except clause returns False).
is_instance_stop_protected_fail_open(attr_call, tags_call) ==
  IF ~attr_call.ok THEN FALSE
  ELSE IF ApiStopValue(attr_call.response) THEN TRUE
  ELSE IF ~tags_call.ok THEN FALSE
  ELSE HasKeepTag(tags_call.response)

\* is_instance_stop_protected, given the outcomes of its two queries (the
\* second is made only when the first returned and its value is false).
is_instance_stop_protected(attr_call, tags_call) ==
  IF ~attr_call.ok THEN TRUE
  ELSE IF ApiStopValue(attr_call.response) THEN TRUE
  ELSE IF ~tags_call.ok THEN TRUE
  ELSE HasKeepTag(tags_call.response)

\* is_asg_protected, given the outcome of its query.
is_asg_protected(tags_call) ==
  IF ~tags_call.ok THEN TRUE ELSE HasKeepTag(tags_call.response)

\* f"{instance_id} ({region})" and f"{asg_name} ({region})"
Entry(id, r) == id \o " (" \o r \o ")"

\* f"Error processing region {region}: {str(e)}"
RegionError(r, e) == "Error processing region " \o r \o ": " \o e

\* Mutant of UpdateRequest: MaxSize is forced down with the other two sizes.
UpdateRequestZeroMax(asg) ==
  [AutoScalingGroupName |-> asg.AutoScalingGroupName,
   MinSize |-> 0,
   MaxSize |-> 0,
   DesiredCapacity |-> 0]

\* The request scale_down_asgs sends for a group of the page.
UpdateRequest(asg) ==
  [AutoScalingGroupName |-> asg.AutoScalingGroupName,
   MinSize |-> 0,
   MaxSize |-> asg.MaxSize,
   DesiredCapacity |-> 0]

\* Mutant of NeedsScaling: the capacity test is dropped.
NeedsScalingAlways(current_capacity) == TRUE

\* if current_capacity > 0
NeedsScaling(current_capacity) == current_capacity > 0

\* The keys of aggregate_results, in insertion order.
AggregateKeys ==
  <<"stopped_instances", "scaled_down_asgs", "errors", "regions_processed">>

\* json.dumps of the aggregate: its members, key then value, in insertion order.
json_dumps(d) == [i \in DOMAIN AggregateKeys |-> <<AggregateKeys[i], d[AggregateKeys[i]]>>]

\* Mutant of Merge: the region's lists replace the aggregate's instead of
\* extending them.
MergeOverwrites(agg, res, r) ==
  [stopped_instances |-> res.stopped_instances,
   scaled_down_asgs |-> res.scaled_down_asgs,
   errors |-> agg.errors \o res.errors,
   regions_processed |-> Append(agg.regions_processed, r)]

\* Mutant of Merge: the region is put at the front of regions_processed.
MergePrepends(agg, res, r) ==
  [stopped_instances |-> agg.stopped_instances \o res.stopped_instances,
   scaled_down_asgs |-> agg.scaled_down_asgs \o res.scaled_down_asgs,
   errors |-> agg.errors \o res.errors,
   regions_processed |-> << r >> \o agg.regions_processed]

\* Mutant of Merge: the region's scaled_down_asgs are not carried over.
MergeForgetsScaled(agg, res, r) ==
  [stopped_instances |-> agg.stopped_instances \o res.stopped_instances,
   scaled_down_asgs |-> agg.scaled_down_asgs,
   errors |-> agg.errors \o res.errors,
   regions_processed |-> Append(agg.regions_processed, r)]

\* Mutant of Merge: the region is not added to regions_processed.
MergeForgetsRegion(agg, res, r) ==
  [stopped_instances |-> agg.stopped_instances \o res.stopped_instances,
   scaled_down_asgs |-> agg.scaled_down_asgs \o res.scaled_down_asgs,
   errors |-> agg.errors \o res.errors,
   regions_processed |-> agg.regions_processed]

\* The aggregate after a region's result is merged into it.
Merge(agg, res, r) ==
  [stopped_instances |-> agg.stopped_instances \o res.stopped_instances,
   scaled_down_asgs |-> agg.scaled_down_asgs \o res.scaled_down_asgs,
   errors |-> agg.errors \o res.errors,
   regions_processed |-> Append(agg.regions_processed, r)]

\* Mutant of Skips: the protected branch never skips.
SkipsNothing(protected) == FALSE

\* if is_..._protected(...): ...; continue
Skips(protected) == protected

\* f"Failed to stop instance {instance_id} in {region}: {str(e)}"
StopFailedMessage(id, r, e) ==
  "Failed to stop instance " \o id \o " in " \o r \o ": " \o e

\* f"Failed to scale down ASG {asg_name} in {region}: {str(e)}"
ScaleFailedMessage(name, r, e) ==
  "Failed to scale down ASG " \o name \o " in " \o r \o ": " \o e

\* f"Error stopping instances in {region}: {str(e)}"
StopSweepMessage(r, e) == "Error stopping instances in " \o r \o ": " \o e

\* f"Error scaling down ASGs in {region}: {str(e)}"
ScaleSweepMessage(r, e) == "Error scaling down ASGs in " \o r \o ": " \o e

CallRec(op, id, ok, request, before, after) ==
  [op |-> op, pass |-> idx, region |-> region, id |-> id, ok |-> ok,
   request |-> request, before |-> before, after |-> after]

CheckRec(kind, id, protected, failed) ==
  [kind |-> kind, pass |-> idx, region |-> region, id |-> id,
   protected |-> protected, failed |-> failed]

RaiseRec(site) == [site |-> site, pass |-> idx, region |-> region]

\* ------------------------------------------------------------------ Init

Init ==
  /\ pc = "start"
  /\ invocation = 1
  /\ allowed_regions = << >>
  /\ idx = 1
  /\ aggregate_results = EmptyAggregate
  /\ region_results = EmptyRegionResults
  /\ stopped_instances = << >>
  /\ response = << >>
  /\ scaled_down_asgs = << >>
  /\ page_no = 1
  /\ page = << >>
  /\ exc = ""
  /\ result = NoResult
  /\ ec2 \in { f \in [InstanceIds -> UNION { InstanceChoices(i) : i \in InstanceIds }] :
                 \A i \in InstanceIds : f[i] \in InstanceChoices(i) }
  /\ autoscaling \in { f \in [AsgKeys -> UNION { AsgChoices(k) : k \in AsgKeys }] :
                         \A k \in AsgKeys : f[k] \in AsgChoices(k) }
  /\ failures = [i \in 1..MaxInvocations |-> 0]
  /\ calls = << >>
  /\ checks = {}
  /\ raises = {}
  /\ passes = << >>
  /\ blank_environ = FALSE
  /\ done_before = {}

\* --------------------------------------------------------------- actions

\* lambda_handler, lines 17-30: read the region list, start the aggregate.
lambda_handler_begin ==
  /\ pc = "start"
  /\ \E environ \in Environs :
       /\ allowed_regions' =
            [i \in DOMAIN get_allowed_regions(environ) |->
               Text(get_allowed_regions(environ)[i])]
       /\ blank_environ' = IsBlank(environ)
  /\ aggregate_results' = EmptyAggregate
  /\ idx' = 1
  /\ pc' = "for_region"
  /\ UNCHANGED << done_before, invocation, region_results, stopped_instances, response,
                  scaled_down_asgs, page_no, page, exc, result, ec2, autoscaling,
                  failures, calls, checks, raises, passes >>

\* process_region, lines 77-87: build the two clients (outside any try of
\* process_region) and start the region's result.
process_region_begin ==
  /\ pc = "for_region"
  /\ idx <= Len(allowed_regions)
  /\ \E ec2_ok \in Outcomes, as_ok \in Outcomes :
       /\ (~as_ok => ec2_ok)
       /\ failures' = Failed(Count(ec2_ok) + Count(as_ok))
       /\ IF ec2_ok /\ as_ok
          THEN /\ region_results' = EmptyRegionResults
               /\ pc' = "stop_idle_begin"
               /\ UNCHANGED << exc, raises >>
          ELSE /\ pc' = Catch("boto3.client")
               /\ exc' = ClientError
               /\ raises' = raises \cup {RaiseRec("boto3.client")}
               /\ UNCHANGED region_results
  /\ UNCHANGED << done_before, blank_environ, invocation, allowed_regions, idx, aggregate_results,
                  stopped_instances, response, scaled_down_asgs, page_no, page,
                  result, ec2, autoscaling, calls, checks, passes >>

\* lambda_handler, lines 44-47: process_region raised.
lambda_handler_except ==
  /\ pc = "lambda_except"
  /\ aggregate_results' =
       [aggregate_results EXCEPT !.errors = Append(@, RegionError(region, exc))]
  /\ passes' = Append(passes, "raised")
  /\ exc' = ""
  /\ idx' = idx + 1
  /\ pc' = "for_region"
  /\ checks' = {}
  /\ raises' = {}
  /\ UNCHANGED << done_before, blank_environ, invocation, allowed_regions, region_results, stopped_instances,
                  response, scaled_down_asgs, page_no, page, result, ec2,
                  autoscaling, failures, calls >>

\* stop_idle_instances, lines 190-198: enumerate the running instances.
stop_idle_instances_begin ==
  /\ pc = "stop_idle_begin"
  /\ stopped_instances' = << >>
  /\ \E ok \in Outcomes :
       /\ failures' = Failed(Count(ok))
       /\ IF ok
          THEN /\ response' = SelectInstances(ec2, region, RunningFilter)
               /\ pc' = "stop_idle_for"
               /\ UNCHANGED << exc, raises >>
          ELSE /\ pc' = Catch("describe_instances")
               /\ exc' = ClientError
               /\ raises' = raises \cup {RaiseRec("describe_instances")}
               /\ UNCHANGED response
  /\ UNCHANGED << done_before, blank_environ, invocation, allowed_regions, idx, aggregate_results,
                  region_results, scaled_down_asgs, page_no, page, result, ec2,
                  autoscaling, calls, checks, passes >>

\* stop_idle_instances, lines 200-213: one instance of the enumeration.
stop_idle_instances_for ==
  /\ pc = "stop_idle_for"
  /\ response # << >>
  /\ LET instance_id == Head(response) IN
     \E a \in Outcomes, t \in Outcomes, s \in Outcomes :
       LET attr_call == IF a THEN Returned(describe_instance_attribute(ec2, instance_id))
                         ELSE Raised
           tags_made == a /\ ~ApiStopValue(attr_call.response)
           tags_call == IF t THEN Returned(describe_tags(ec2[instance_id].Tags, GovernanceKey))
                         ELSE Raised
           protected == is_instance_stop_protected(attr_call, tags_call)
           n         == Count(a) + Count(t) + Count(s)
       IN  /\ (~t => tags_made)
           /\ (~s => ~Skips(protected))
           /\ Sum(failures) + n <= MaxFailures
           /\ failures' = Failed(n)
           /\ checks' = checks \cup
                {CheckRec("instance", instance_id, protected, ~a \/ ~t)}
           /\ response' = Tail(response)
           /\ IF Skips(protected)
              THEN UNCHANGED << pc, exc, ec2, stopped_instances, calls >>
              ELSE IF s
              THEN /\ ec2' = stop_instances(ec2, instance_id)
                   /\ stopped_instances' =
                        Append(stopped_instances, Entry(instance_id, region))
                   /\ calls' = Append(calls,
                        CallRec("stop", instance_id, TRUE, <<instance_id>>,
                                ec2[instance_id], ec2'[instance_id]))
                   /\ UNCHANGED << pc, exc >>
              ELSE /\ calls' = Append(calls,
                        CallRec("stop", instance_id, FALSE, <<instance_id>>,
                                ec2[instance_id], ec2[instance_id]))
                   /\ pc' = Catch("stop_instances")
                   /\ exc' = ClientError
                   /\ UNCHANGED << ec2, stopped_instances >>
  /\ UNCHANGED << done_before, blank_environ, invocation, allowed_regions, idx, aggregate_results,
                  region_results, scaled_down_asgs, page_no, page, result,
                  autoscaling, raises, passes >>

\* stop_idle_instances, lines 214-216: the stop call raised; the message is
\* built and printed, and the loop goes on.
stop_idle_instances_stop_failed ==
  /\ pc = "stop_failed_except"
  /\ exc' = ""
  /\ pc' = "stop_idle_for"
  /\ UNCHANGED << done_before, blank_environ, invocation, allowed_regions, idx, aggregate_results,
                  region_results, stopped_instances, response, scaled_down_asgs,
                  page_no, page, result, ec2, autoscaling, failures, calls,
                  checks, raises, passes >>

\* stop_idle_instances, lines 218-219: the enumeration raised; the message is
\* printed.
stop_idle_instances_except ==
  /\ pc = "stop_idle_except"
  /\ exc' = ""
  /\ pc' = "stop_idle_return"
  /\ UNCHANGED << done_before, blank_environ, invocation, allowed_regions, idx, aggregate_results,
                  region_results, stopped_instances, response, scaled_down_asgs,
                  page_no, page, result, ec2, autoscaling, failures, calls,
                  checks, raises, passes >>

\* stop_idle_instances line 221 and process_region lines 91-92: the sweeper
\* returns its list, which becomes the region's stopped_instances.
stop_idle_instances_return ==
  /\ (pc = "stop_idle_for" /\ response = << >>) \/ pc = "stop_idle_return"
  /\ region_results' =
       [region_results EXCEPT !.stopped_instances = stopped_instances]
  /\ pc' = "scale_down_begin"
  /\ UNCHANGED << done_before, blank_environ, invocation, allowed_regions, idx, aggregate_results,
                  stopped_instances, response, scaled_down_asgs, page_no, page,
                  exc, result, ec2, autoscaling, failures, calls, checks,
                  raises, passes >>

\* scale_down_asgs, lines 235-239: start the result list and the paginator.
scale_down_asgs_begin ==
  /\ pc = "scale_down_begin"
  /\ scaled_down_asgs' = << >>
  /\ page_no' = 1
  /\ page' = << >>
  /\ pc' = "scale_down_for"
  /\ UNCHANGED << done_before, blank_environ, invocation, allowed_regions, idx, aggregate_results,
                  region_results, stopped_instances, response, exc, result, ec2,
                  autoscaling, failures, calls, checks, raises, passes >>

\* scale_down_asgs, line 241: the current page is used up and the paginator
\* fetches the next one.
scale_down_asgs_paginate ==
  /\ pc = "scale_down_for"
  /\ page = << >>
  /\ page_no <= Len(AsgPages[region])
  /\ \E ok \in Outcomes :
       /\ failures' = Failed(Count(ok))
       /\ IF ok
          THEN /\ page' =
                    describe_auto_scaling_groups(autoscaling, region, page_no).AutoScalingGroups
               /\ page_no' = page_no + 1
               /\ UNCHANGED << pc, exc, raises >>
          ELSE /\ pc' = Catch("paginate")
               /\ exc' = ClientError
               /\ raises' = raises \cup {RaiseRec("paginate")}
               /\ UNCHANGED << page, page_no >>
  /\ UNCHANGED << done_before, blank_environ, invocation, allowed_regions, idx, aggregate_results,
                  region_results, stopped_instances, response, scaled_down_asgs,
                  result, ec2, autoscaling, calls, checks, passes >>

\* scale_down_asgs, lines 242-265: one group of the page.
scale_down_asgs_for ==
  /\ pc = "scale_down_for"
  /\ page # << >>
  /\ LET asg              == Head(page)
         asg_name         == asg.AutoScalingGroupName
         current_capacity == asg.DesiredCapacity
         key              == <<region, asg_name>>
     IN
     \E t \in Outcomes, u \in Outcomes :
       LET tags_call == IF t THEN Returned(describe_tags(autoscaling[key].Tags, GovernanceKey))
                         ELSE Raised
           protected == is_asg_protected(tags_call)
           request   == UpdateRequest(asg)
           n         == Count(t) + Count(u)
       IN  /\ (~u => ~Skips(protected) /\ NeedsScaling(current_capacity))
           /\ Sum(failures) + n <= MaxFailures
           /\ failures' = Failed(n)
           /\ checks' = checks \cup {CheckRec("asg", asg_name, protected, ~t)}
           /\ page' = Tail(page)
           /\ IF Skips(protected) \/ ~NeedsScaling(current_capacity)
              THEN UNCHANGED << pc, exc, autoscaling, scaled_down_asgs, calls >>
              ELSE IF u
              THEN /\ autoscaling' = update_auto_scaling_group(autoscaling, region, request)
                   /\ scaled_down_asgs' =
                        Append(scaled_down_asgs, Entry(asg_name, region))
                   /\ calls' = Append(calls,
                        CallRec("update", asg_name, TRUE, request,
                                autoscaling[key], autoscaling'[key]))
                   /\ UNCHANGED << pc, exc >>
              ELSE /\ calls' = Append(calls,
                        CallRec("update", asg_name, FALSE, request,
                                autoscaling[key], autoscaling[key]))
                   /\ pc' = Catch("update_auto_scaling_group")
                   /\ exc' = ClientError
                   /\ UNCHANGED << autoscaling, scaled_down_asgs >>
  /\ UNCHANGED << done_before, blank_environ, invocation, allowed_regions, idx, aggregate_results,
                  region_results, stopped_instances, response, page_no, result,
                  ec2, raises, passes >>

\* scale_down_asgs, lines 261-263: the update call raised; the message is
\* built and printed, and the loop goes on.
scale_down_asgs_update_failed ==
  /\ pc = "update_failed_except"
  /\ exc' = ""
  /\ pc' = "scale_down_for"
  /\ UNCHANGED << done_before, blank_environ, invocation, allowed_regions, idx, aggregate_results,
                  region_results, stopped_instances, response, scaled_down_asgs,
                  page_no, page, result, ec2, autoscaling, failures, calls,
                  checks, raises, passes >>

\* scale_down_asgs, lines 267-268: the listing raised; the message is printed.
scale_down_asgs_except ==
  /\ pc = "scale_down_except"
  /\ exc' = ""
  /\ pc' = "scale_down_return"
  /\ UNCHANGED << done_before, blank_environ, invocation, allowed_regions, idx, aggregate_results,
                  region_results, stopped_instances, response, scaled_down_asgs,
                  page_no, page, result, ec2, autoscaling, failures, calls,
                  checks, raises, passes >>

\* scale_down_asgs line 270 and process_region lines 95-98: the sweeper returns
\* its list, which becomes the region's scaled_down_asgs.
scale_down_asgs_return ==
  /\ \/ pc = "scale_down_return"
     \/ pc = "scale_down_for" /\ page = << >> /\ page_no > Len(AsgPages[region])
  /\ region_results' =
       [region_results EXCEPT !.scaled_down_asgs = scaled_down_asgs]
  /\ pc' = "process_region_return"
  /\ UNCHANGED << done_before, blank_environ, invocation, allowed_regions, idx, aggregate_results,
                  stopped_instances, response, scaled_down_asgs, page_no, page,
                  exc, result, ec2, autoscaling, failures, calls, checks,
                  raises, passes >>

\* process_region line 105 and lambda_handler lines 36-42: the region's result
\* is returned and merged into the aggregate.
lambda_handler_merge ==
  /\ pc = "process_region_return"
  /\ aggregate_results' = Merge(aggregate_results, region_results, region)
  /\ passes' = Append(passes, "returned")
  /\ idx' = idx + 1
  /\ pc' = "for_region"
  /\ region_results' = EmptyRegionResults
  /\ stopped_instances' = << >>
  /\ scaled_down_asgs' = << >>
  /\ response' = << >>
  /\ page' = << >>
  /\ page_no' = 1
  /\ checks' = {}
  /\ raises' = {}
  /\ UNCHANGED << done_before, blank_environ, invocation, allowed_regions, exc, result, ec2, autoscaling,
                  failures, calls >>

\* lambda_handler, lines 49-52: the loop is over; return the response.
lambda_handler_return ==
  /\ pc = "for_region"
  /\ idx > Len(allowed_regions)
  /\ result' = [statusCode |-> 200, body |-> json_dumps(aggregate_results)]
  /\ pc' = "returned"
  /\ UNCHANGED << done_before, blank_environ, invocation, allowed_regions, idx, aggregate_results,
                  region_results, stopped_instances, response, scaled_down_asgs,
                  page_no, page, exc, ec2, autoscaling, failures, calls, checks,
                  raises, passes >>

\* The schedule fires again: another invocation, with the environment and the
\* provider as the last one left them.
Reinvoke ==
  /\ pc = "returned"
  /\ invocation < MaxInvocations
  /\ invocation' = invocation + 1
  /\ pc' = "for_region"
  /\ idx' = 1
  /\ aggregate_results' = EmptyAggregate
  /\ result' = NoResult
  /\ calls' = << >>
  /\ checks' = {}
  /\ raises' = {}
  /\ passes' = << >>
  /\ done_before' = done_before \cup
       { <<calls[j].op, calls[j].region, calls[j].id>> :
           j \in { k \in DOMAIN calls : calls[k].ok } }
  /\ UNCHANGED << blank_environ, allowed_regions, region_results, stopped_instances, response,
                  scaled_down_asgs, page_no, page, exc, ec2, autoscaling,
                  failures >>

\* ------------------------------------------------------- specifications

Next ==
  \/ lambda_handler_begin
  \/ process_region_begin
  \/ lambda_handler_except
  \/ stop_idle_instances_begin
  \/ stop_idle_instances_for
  \/ stop_idle_instances_stop_failed
  \/ stop_idle_instances_except
  \/ stop_idle_instances_return
  \/ scale_down_asgs_begin
  \/ scale_down_asgs_paginate
  \/ scale_down_asgs_for
  \/ scale_down_asgs_update_failed
  \/ scale_down_asgs_except
  \/ scale_down_asgs_return
  \/ lambda_handler_merge
  \/ lambda_handler_return

\* One invocation of the handler.
Spec == Init /\ [][Next]_vars

\* One invocation; the runtime keeps running the handler until it returns or
\* an exception leaves it.
FairSpec == Init /\ [][Next]_vars /\ WF_vars(Next)

NextTwice == Next \/ Reinvoke

\* Two invocations in succession, nothing else touching the provider.
TwiceSpec == Init /\ [][NextTwice]_vars

\* ------------------------------------------------------- properties

Range(s) == { s[j] : j \in DOMAIN s }

OpOf(kind) == IF kind = "instance" THEN "stop" ELSE "update"

\* The stop or update calls made for the resource a protection check was about,
\* in the region pass of that check.
CallsFor(c) ==
  { j \in DOMAIN calls :
      /\ calls[j].pass = c.pass
      /\ calls[j].op = OpOf(c.kind)
      /\ calls[j].id = c.id }

\* The result lists of the running sweep that a resource of that kind goes to.
SweepLists(kind) ==
  IF kind = "instance"
  THEN Range(stopped_instances) \cup Range(region_results.stopped_instances)
  ELSE Range(scaled_down_asgs) \cup Range(region_results.scaled_down_asgs)

\* C1: a resource whose protection check returned true in a sweep gets no stop
\* or update call in that sweep, and its entry is in neither the sweeper's
\* result list nor the region's result.
ProtectedNeverActedOn ==
  \A c \in checks :
     c.protected =>
       /\ CallsFor(c) = {}
       /\ Entry(c.id, c.region) \notin SweepLists(c.kind)

\* C1's case: in one sweep an instance was found protected and skipped, and
\* the next instance of the same enumeration was stopped.
ProtectedSkippedWitness ==
  /\ \E c \in checks : c.kind = "instance" /\ c.id = "i-1" /\ c.protected /\ ~c.failed
  /\ stopped_instances = << Entry("i-2", "us-east-1") >>
  /\ pc = "stop_idle_for"

\* C2: a protection check one of whose queries raised resolves to protected;
\* that step makes no stop or update call, changes nothing at the provider,
\* adds nothing to any errors list or result list, and leaves the sweep in its
\* loop with the resource consumed, at the next one.
CheckFailureMeansProtected ==
  [][ \A c \in checks' \ checks :
        c.failed =>
          /\ c.protected
          /\ calls' = calls
          /\ ec2' = ec2
          /\ autoscaling' = autoscaling
          /\ region_results' = region_results
          /\ aggregate_results' = aggregate_results
          /\ stopped_instances' = stopped_instances
          /\ scaled_down_asgs' = scaled_down_asgs
          /\ pc' = pc
          /\ exc' = ""
          /\ (c.kind = "instance" => response' = Tail(response))
          /\ (c.kind = "asg" => page' = Tail(page)) ]_vars

\* C2's case: the check of i-1 failed, i-1 was skipped, and the sweep went on
\* to stop i-2.
CheckFailureWitness ==
  /\ \E c \in checks : c.kind = "instance" /\ c.id = "i-1" /\ c.failed
  /\ stopped_instances = << Entry("i-2", "us-east-1") >>
  /\ region_results.errors = << >>

\* The message the sweeper builds for a call that raised.
FailureMessage(call) ==
  IF call.op = "stop"
  THEN StopFailedMessage(call.id, call.region, ClientError)
  ELSE ScaleFailedMessage(call.id, call.region, ClientError)

\* C3: every stop or update call that raised has its error string in the
\* errors list of the region's result when process_region returns it, and in
\* the errors of the aggregate when lambda_handler returns.
FailedCallsAreRecorded ==
  /\ pc = "process_region_return" =>
       \A j \in DOMAIN calls :
          (calls[j].pass = idx /\ ~calls[j].ok) =>
             FailureMessage(calls[j]) \in Range(region_results.errors)
  /\ pc = "returned" =>
       \A j \in DOMAIN calls :
          ~calls[j].ok => FailureMessage(calls[j]) \in Range(aggregate_results.errors)

\* C4: every update call asks for MinSize 0 and DesiredCapacity 0 and passes the
\* MaxSize the group has; a call that returned leaves the group with MinSize 0,
\* DesiredCapacity 0 and the MaxSize it had before.
UpdateKeepsMaxSize ==
  \A j \in DOMAIN calls :
     calls[j].op = "update" =>
       /\ calls[j].request.MinSize = 0
       /\ calls[j].request.DesiredCapacity = 0
       /\ calls[j].request.MaxSize = calls[j].before.MaxSize
       /\ calls[j].ok =>
            /\ calls[j].after.MaxSize = calls[j].before.MaxSize
            /\ calls[j].after.MinSize = 0
            /\ calls[j].after.DesiredCapacity = 0
       /\ ~calls[j].ok => calls[j].after = calls[j].before

\* C4's case: a group with MinSize 1, MaxSize 3, DesiredCapacity 2 was scaled
\* down and is now at 0, 3, 0.
UpdateKeepsMaxSizeWitness ==
  \E j \in DOMAIN calls :
     /\ calls[j].op = "update"
     /\ calls[j].ok
     /\ calls[j].before.MinSize = 1
     /\ calls[j].before.MaxSize = 3
     /\ calls[j].before.DesiredCapacity = 2
     /\ autoscaling[<<calls[j].region, calls[j].id>>].MaxSize = 3
     /\ autoscaling[<<calls[j].region, calls[j].id>>].DesiredCapacity = 0

\* The calls of one kind that returned, in the order they were made.
OkCalls(op) == SelectSeq(calls, LAMBDA c : c.op = op /\ c.ok)

\* The report entries of a sequence of calls.
EntriesOf(cs) == [j \in DOMAIN cs |-> Entry(cs[j].id, cs[j].region)]

\* The regions of the first n positions at which process_region returned.
RECURSIVE ReturnedUpTo(_)
ReturnedUpTo(n) ==
  IF n = 0 THEN << >>
  ELSE ReturnedUpTo(n - 1)
       \o (IF passes[n] = "returned" THEN << allowed_regions[n] >> ELSE << >>)

\* C5: between two regions and at return, every position before the loop's
\* has been processed, and the aggregate holds exactly the regions whose
\* process_region returned and the entries of the calls that returned, each
\* in order; a failure in one region neither removes what earlier regions
\* contributed nor keeps later regions out.  At return no position is left.
RegionsAreIsolated ==
  /\ pc \in {"for_region", "returned"} =>
       /\ Len(passes) = idx - 1
       /\ aggregate_results.regions_processed = ReturnedUpTo(Len(passes))
       /\ aggregate_results.stopped_instances = EntriesOf(OkCalls("stop"))
       /\ aggregate_results.scaled_down_asgs = EntriesOf(OkCalls("update"))
  /\ pc = "returned" => Len(passes) = Len(allowed_regions)

\* C5's case: three regions, the middle one failed at client construction;
\* the first region's and the third region's stops and scalings are in the
\* aggregate and both are in regions_processed.
RegionsAreIsolatedWitness ==
  /\ pc = "returned"
  /\ allowed_regions = <<"us-east-1", "us-east-1", "eu-west-1">>
  /\ passes = <<"returned", "raised", "returned">>
  /\ aggregate_results.regions_processed = <<"us-east-1", "eu-west-1">>
  /\ aggregate_results.stopped_instances =
       << Entry("i-1", "us-east-1"), Entry("i-2", "us-east-1"),
          Entry("i-3", "eu-west-1") >>
  /\ Entry("asg-a", "eu-west-1") \in Range(aggregate_results.scaled_down_asgs)
  /\ Len(aggregate_results.errors) = 1

\* How often a value occurs in a sequence.
Occurrences(s, x) == Cardinality({ j \in DOMAIN s : s[j] = x })

\* C6: when describe_instances raised for a region, the region's result, as
\* process_region returns it, has no stopped instance and exactly one error
\* string for that failure, and the listing of the groups was run.
EnumerationFailureIsRecorded ==
  (pc = "process_region_return" /\ RaiseRec("describe_instances") \in raises) =>
     /\ region_results.stopped_instances = << >>
     /\ Occurrences(region_results.errors, StopSweepMessage(region, ClientError)) = 1
     /\ page_no > 1 \/ RaiseRec("paginate") \in raises

\* The three lists of a GovernanceResult.
IsGovernanceResult(r) ==
  /\ DOMAIN r = {"stopped_instances", "scaled_down_asgs", "errors"}
  /\ \A k \in DOMAIN r : DOMAIN r[k] = 1..Len(r[k])

\* C7 as claimed: no exception of process_region reaches lambda_handler, and
\* what it returns is a GovernanceResult.
ProcessRegionNeverThrows ==
  /\ pc # "lambda_except"
  /\ pc = "process_region_return" => IsGovernanceResult(region_results)

\* C7, amended: an exception of process_region reaches lambda_handler only
\* when the construction of a client raised, before any sweeper ran; a raised
\* enumeration, listing, query, stop or update never does; and what
\* process_region returns is a GovernanceResult.
ProcessRegionThrowsOnlyForClients ==
  /\ pc = "lambda_except" =>
       /\ raises = {RaiseRec("boto3.client")}
       /\ checks = {}
       /\ \A j \in DOMAIN calls : calls[j].pass # idx
  /\ pc = "process_region_return" =>
       /\ RaiseRec("boto3.client") \notin raises
       /\ IsGovernanceResult(region_results)

\* C7's case: the enumeration of instances and the listing of groups both
\* raised, and process_region returns its result.
ProcessRegionReturnsWitness ==
  /\ pc = "process_region_return"
  /\ raises = {RaiseRec("describe_instances"), RaiseRec("paginate")}
  /\ region_results = EmptyRegionResults

\* The response of lambda_handler: status 200 and a body with the four lists.
IsResponse(r) ==
  /\ r.statusCode = 200
  /\ DOMAIN r.body = 1..4
  /\ { r.body[j][1] : j \in DOMAIN r.body } =
       {"stopped_instances", "scaled_down_asgs", "errors", "regions_processed"}
  /\ \A j \in DOMAIN r.body : DOMAIN r.body[j][2] = 1..Len(r.body[j][2])

\* C8: lambda_handler eventually returns, having gone through every position
\* of the region list, a response with status code 200 and the four lists.
HandlerReturns ==
  <>( /\ pc = "returned"
      /\ Len(passes) = Len(allowed_regions)
      /\ IsResponse(result) )

\* C8's case: a three-region run with a failed client construction and
\* another raised call has returned its response.
HandlerReturnsWitness ==
  /\ pc = "returned"
  /\ Len(allowed_regions) = 3
  /\ "raised" \in Range(passes)
  /\ Sum(failures) = 2
  /\ IsResponse(result)

\* C9 as claimed: a second invocation in succession reports no stopped
\* instance and no scaled group.
SecondRunIsEmpty ==
  (invocation >= 2 /\ pc = "returned") =>
     /\ aggregate_results.stopped_instances = << >>
     /\ aggregate_results.scaled_down_asgs = << >>

\* The entries a sweeper's list, the region's result and the aggregate hold
\* for the resources of an operation.
ListsOf(op) ==
  IF op = "stop"
  THEN Range(stopped_instances) \cup Range(region_results.stopped_instances)
         \cup Range(aggregate_results.stopped_instances)
  ELSE Range(scaled_down_asgs) \cup Range(region_results.scaled_down_asgs)
         \cup Range(aggregate_results.scaled_down_asgs)

\* C9, amended: in a later invocation in succession, whatever raised in the
\* earlier ones, a resource whose stop or update call returned in an earlier
\* invocation gets no call and is in no result list; and when no call raised
\* during the first invocation, a later one makes no stop or update call at
\* all and reports no stopped instance and no scaled group.
SecondRunSparesDone ==
  invocation >= 2 =>
     /\ \A j \in DOMAIN calls :
           <<calls[j].op, calls[j].region, calls[j].id>> \notin done_before
     /\ \A d \in done_before : Entry(d[3], d[2]) \notin ListsOf(d[1])
     /\ failures[1] = 0 =>
          /\ calls = << >>
          /\ ListsOf("stop") = {}
          /\ ListsOf("update") = {}

\* C9's case: in the first invocation the stop of i-1 raised, i-2 was stopped
\* and asg-b scaled down; the second invocation went through the same region,
\* stopped i-1 and nothing else, and returned.
SecondRunAfterFailureWitness ==
  /\ invocation = 2
  /\ pc = "returned"
  /\ failures[1] = 1
  /\ <<"stop", "us-east-1", "i-2">> \in done_before
  /\ <<"update", "us-east-1", "asg-b">> \in done_before
  /\ Len(calls) = 1 /\ calls[1].id = "i-1" /\ calls[1].ok
  /\ aggregate_results.stopped_instances = << Entry("i-1", "us-east-1") >>
  /\ aggregate_results.scaled_down_asgs = << >>

SameResource(a, b) == a.op = b.op /\ a.region = b.region /\ a.id = b.id

NoRegionTwice ==
  \A j, k \in DOMAIN allowed_regions :
     allowed_regions[j] = allowed_regions[k] => j = k

\* C10 as claimed: within one invocation no instance gets two stop calls and
\* no group two update calls.
AtMostOneCall ==
  \A j, k \in DOMAIN calls : SameResource(calls[j], calls[k]) => j = k

\* C10, amended: within one invocation a resource gets a further call only
\* after every earlier call to it raised, so no instance is stopped twice and
\* no group scaled twice; and when the list names no region twice, no resource
\* gets more than one call.
AtMostOneReturnedCall ==
  /\ \A j, k \in DOMAIN calls :
        (j < k /\ SameResource(calls[j], calls[k])) => ~calls[j].ok
  /\ NoRegionTwice => AtMostOneCall

\* C10's case: the list names us-east-1 twice; the first pass stopped i-2 and
\* scaled asg-b down, the second pass ran too, and each got one call.
AtMostOneReturnedCallWitness ==
  /\ pc = "returned"
  /\ allowed_regions = <<"us-east-1", "us-east-1">>
  /\ passes = <<"returned", "returned">>
  /\ \E j \in DOMAIN calls :
        calls[j].op = "stop" /\ calls[j].id = "i-2" /\ calls[j].ok /\ calls[j].pass = 1
  /\ \E j \in DOMAIN calls :
        calls[j].op = "update" /\ calls[j].id = "asg-b" /\ calls[j].ok /\ calls[j].pass = 1
  /\ Sum(failures) = 0

\* C11: every stop call is for an instance that is in the running state when
\* the call is made; an instance in any other state gets none.
OnlyRunningAreStopped ==
  \A j \in DOMAIN calls :
     calls[j].op = "stop" => calls[j].before.State = "running"

\* C11's case: i-1 is stopped when the sweep of us-east-1 starts; the sweep
\* stopped i-2, made no call for i-1, and is over.
OnlyRunningAreStoppedWitness ==
  /\ pc = "scale_down_begin"
  /\ region = "us-east-1"
  /\ ec2["i-1"].State = "stopped"
  /\ region_results.stopped_instances = << Entry("i-2", "us-east-1") >>
  /\ \A j \in DOMAIN calls : calls[j].id # "i-1"

\* C12: a loop step of scale_down_asgs for a group listed with DesiredCapacity
\* 0 makes no update call, whatever its protection check gave (protected,
\* unprotected, or a query that raised): the call log, the provider, the
\* sweeper's list and every errors list are unchanged, and no handler is
\* entered.
ZeroCapacityIsLeftAlone ==
  [][ ( /\ pc = "scale_down_for"
        /\ page # << >>
        /\ Head(page).DesiredCapacity = 0
        /\ page' = Tail(page) )
      => /\ calls' = calls
         /\ autoscaling' = autoscaling
         /\ scaled_down_asgs' = scaled_down_asgs
         /\ region_results' = region_results
         /\ aggregate_results' = aggregate_results
         /\ pc' = pc ]_vars

\* C12's case: asg-a of us-east-1 was listed at capacity 0, its check returned
\* unprotected, and it got no update call; asg-b after it was scaled down.
ZeroCapacityIsLeftAloneWitness ==
  /\ pc = "process_region_return"
  /\ region = "us-east-1"
  /\ autoscaling[<<"us-east-1", "asg-a">>].DesiredCapacity = 0
  /\ \E c \in checks : c.kind = "asg" /\ c.id = "asg-a" /\ ~c.protected
  /\ \A j \in DOMAIN calls : calls[j].id # "asg-a"
  /\ region_results.scaled_down_asgs = << Entry("asg-b", "us-east-1") >>

\* The calls of the running region pass for that operation that returned.
OkCallsOfPass(op) ==
  SelectSeq(calls, LAMBDA c : c.op = op /\ c.ok /\ c.pass = idx)

\* The names of the groups of a region, over all pages.
AsgNames(r) == { k[2] : k \in { q \in AsgKeys : q[1] = r } }

\* C13: a failed stop or update call does not end the sweep.  When a sweep
\* whose enumeration did not raise is over, every resource of the region that
\* is still running (still at a capacity above 0) was checked in this sweep
\* and, unless the check protected it, received its call; and the list the
\* sweep returns holds every call of the sweep that returned, in order.
FailureDoesNotAbortSweep ==
  /\ (pc = "scale_down_begin" /\ RaiseRec("describe_instances") \notin raises) =>
       /\ \A i \in Range(InstanceOrder[region]) :
             ec2[i].State = "running" =>
               \E c \in checks :
                  /\ c.kind = "instance" /\ c.id = i
                  /\ ~c.protected => CallsFor(c) # {}
       /\ region_results.stopped_instances = EntriesOf(OkCallsOfPass("stop"))
  /\ (pc = "process_region_return" /\ RaiseRec("paginate") \notin raises) =>
       /\ \A a \in AsgNames(region) :
             \E c \in checks :
                /\ c.kind = "asg" /\ c.id = a
                /\ (~c.protected /\ autoscaling[<<region, a>>].DesiredCapacity > 0)
                     => CallsFor(c) # {}
       /\ region_results.scaled_down_asgs = EntriesOf(OkCallsOfPass("update"))

\* C13's case: in us-east-1 the stop of i-1 raised and i-2 was stopped after
\* it; the update of asg-a raised and asg-b was scaled down after it.
FailureDoesNotAbortSweepWitness ==
  /\ pc = "process_region_return"
  /\ region = "us-east-1"
  /\ Len(calls) = 4
  /\ calls[1].id = "i-1" /\ ~calls[1].ok
  /\ calls[2].id = "i-2" /\ calls[2].ok
  /\ calls[3].id = "asg-a" /\ ~calls[3].ok
  /\ calls[4].id = "asg-b" /\ calls[4].ok
  /\ region_results.stopped_instances = << Entry("i-2", "us-east-1") >>
  /\ region_results.scaled_down_asgs = << Entry("asg-b", "us-east-1") >>

\* The reference policy, read off the provider's state.  Two characters are
\* the same letter when they are equal or the two cases of one letter.
CasePairs == { {107, 75}, {107, 8490}, {101, 69}, {112, 80} }

SameLetter(a, b) == a = b \/ {a, b} \in CasePairs

EqualsIgnoringCase(v, w) ==
  /\ Len(v) = Len(w)
  /\ \A j \in DOMAIN v : SameLetter(v[j], w[j])

HasGovernanceKeep(tags) ==
  \E j \in DOMAIN tags :
     /\ tags[j].Key = "ResourceGovernance"
     /\ EqualsIgnoringCase(tags[j].Value, <<107, 101, 101, 112>>)

PolicyProtects(kind, r, id) ==
  IF kind = "instance"
  THEN ec2[id].DisableApiStop = TRUE \/ HasGovernanceKeep(ec2[id].Tags)
  ELSE HasGovernanceKeep(autoscaling[<<r, id>>].Tags)

\* C14: a protection check none of whose queries raised gives the reference
\* policy: an instance is protected exactly when disableApiStop is true or it
\* has a ResourceGovernance tag whose value is 'keep' in any letter case; a
\* group exactly when it has such a tag.
CheckEqualsPolicy ==
  \A c \in checks :
     ~c.failed => (c.protected <=> PolicyProtects(c.kind, c.region, c.id))

\* C14's case: in us-east-1, i-1 and asg-a carry ResourceGovernance=KeEp and
\* their checks returned protected; i-2 (ResourceGovernance=kept) and asg-b
\* (no tag) were checked unprotected; no query raised.
CheckEqualsPolicyWitness ==
  /\ pc = "process_region_return"
  /\ region = "us-east-1"
  /\ ec2["i-1"].Tags = Tag(GovernanceKey, KelvinKeep)
  /\ autoscaling[<<"us-east-1", "asg-a">>].Tags = Tag(GovernanceKey, MixedKeep)
  /\ \A c \in checks : ~c.failed
  /\ \A c \in checks : c.protected <=> c.id \in {"i-1", "asg-a"}
  /\ { c.id : c \in checks } = {"i-1", "i-2", "asg-a", "asg-b"}

\* C15: when a page of the listing of the groups raised, the sweep stops, the
\* region's result as process_region returns it has exactly one error string
\* for that failure, and the groups scaled down on earlier pages are in its
\* scaled_down_asgs.
PaginationFailureIsRecorded ==
  (pc = "process_region_return" /\ RaiseRec("paginate") \in raises) =>
     /\ Occurrences(region_results.errors, ScaleSweepMessage(region, ClientError)) = 1
     /\ region_results.scaled_down_asgs = EntriesOf(OkCallsOfPass("update"))
     /\ page_no <= Len(AsgPages[region])

\* C16: when ALLOWED_REGIONS is set to the empty string, or to commas and
\* whitespace only, the region list is empty, the handler never enters
\* process_region (so no client is built and no API call made), and all four
\* lists of the aggregate and of the returned body are empty.
BlankListProcessesNothing ==
  blank_environ =>
     /\ allowed_regions = << >>
     /\ pc \in {"for_region", "returned"}
     /\ aggregate_results = EmptyAggregate
     /\ \A k \in DOMAIN aggregate_results : aggregate_results[k] = << >>
     /\ calls = << >> /\ checks = {} /\ raises = {} /\ passes = << >>
     /\ Sum(failures) = 0
     /\ pc = "returned" => result.body = json_dumps(EmptyAggregate)

\* C16's case: the handler returned after reading a blank ALLOWED_REGIONS.
BlankListProcessesNothingWitness ==
  /\ blank_environ
  /\ pc = "returned"
  /\ result.statusCode = 200

\* The position of a call's resource in the enumeration of its sweeper.
EnumerationIndex(c) ==
  LET order == IF c.op = "stop" THEN InstanceOrder[c.region]
                                ELSE Flatten(AsgPages[c.region])
  IN  CHOOSE j \in DOMAIN order : order[j] = c.id

\* s is t with some positions left out: the positions kept are those where
\* process_region returned.
InSuppliedOrder(s, t) ==
  \E f \in [DOMAIN s -> DOMAIN passes] :
     /\ \A j, k \in DOMAIN s : j < k => f[j] < f[k]
     /\ \A j \in DOMAIN s : s[j] = t[f[j]] /\ passes[f[j]] = "returned"

\* C17: the stop and update calls are made in a fixed order: by position of
\* the region in the list; within a region pass every stop before every
\* update; within a sweeper in enumeration order.  regions_processed lists
\* the regions in the order of the list.
CallsInFixedOrder ==
  /\ \A j, k \in DOMAIN calls :
        j < k =>
          /\ calls[j].pass <= calls[k].pass
          /\ calls[j].pass = calls[k].pass =>
               /\ ~(calls[j].op = "update" /\ calls[k].op = "stop")
               /\ calls[j].op = calls[k].op =>
                    EnumerationIndex(calls[j]) < EnumerationIndex(calls[k])
  /\ \A j \in DOMAIN calls : calls[j].region = allowed_regions[calls[j].pass]
  /\ InSuppliedOrder(aggregate_results.regions_processed, allowed_regions)

\* C17's case: the list is us-east-1, eu-west-1; every resource got its call
\* (i-1, i-2, asg-a, asg-b, then i-3, asg-a) and the handler returned.
CallsInFixedOrderWitness ==
  /\ pc = "returned"
  /\ allowed_regions = <<"us-east-1", "eu-west-1">>
  /\ [j \in DOMAIN calls |-> <<calls[j].pass, calls[j].id>>] =
       << <<1, "i-1">>, <<1, "i-2">>, <<1, "asg-a">>, <<1, "asg-b">>,
          <<2, "i-3">>, <<2, "asg-a">> >>
  /\ aggregate_results.regions_processed = <<"us-east-1", "eu-west-1">>

\* The list the returned body holds under a key.
BodyList(key) ==
  LET j == CHOOSE i \in DOMAIN result.body : result.body[i][1] = key
  IN  result.body[j][2]

\* The calls of an operation that returned and whose report entry is e.
ReturnedCallsWithEntry(op, e) ==
  { j \in DOMAIN calls :
      calls[j].op = op /\ calls[j].ok /\ Entry(calls[j].id, calls[j].region) = e }

ReportOf(op) ==
  IF op = "stop" THEN BodyList("stopped_instances") ELSE BodyList("scaled_down_asgs")

\* C18: the body lambda_handler returns reports the calls exactly: an entry
\* '<id> (<region>)' is in stopped_instances as many times as stop calls for
\* that instance returned, and in scaled_down_asgs as many times as update
\* calls for that group returned; so a call that returned is never missing,
\* and a resource whose call raised or that was skipped is never listed.
ReportMatchesActions ==
  pc = "returned" =>
    \A op \in {"stop", "update"} :
       /\ \A e \in Range(ReportOf(op)) :
             Occurrences(ReportOf(op), e) = Cardinality(ReturnedCallsWithEntry(op, e))
       /\ \A j \in DOMAIN calls :
             (calls[j].op = op /\ calls[j].ok) =>
                Entry(calls[j].id, calls[j].region) \in Range(ReportOf(op))
       /\ Len(ReportOf(op)) = Len(OkCalls(op))

\* C18's case: the handler returned after a pass over us-east-1 in which the
\* stop of i-1 raised, i-2 was stopped, asg-a was skipped as protected and
\* asg-b was scaled down; the body lists i-2 and asg-b only.
ReportMatchesActionsWitness ==
  /\ pc = "returned"
  /\ allowed_regions = <<"us-east-1">>
  /\ autoscaling[<<"us-east-1", "asg-a">>].Tags = Tag(GovernanceKey, MixedKeep)
  /\ Len(calls) = 3
  /\ calls[1].id = "i-1" /\ ~calls[1].ok
  /\ BodyList("stopped_instances") = << "i-2 (us-east-1)" >>
  /\ BodyList("scaled_down_asgs") = << "asg-b (us-east-1)" >>

\* The positions of the list at which process_region ended that way.
PositionsOf(r, how) ==
  { n \in DOMAIN allowed_regions : allowed_regions[n] = r /\ passes[n] = how }

\* C19: at return every occurrence of a region in the list is accounted for
\* in exactly one way: process_region returned for it and it is one entry of
\* regions_processed, or process_region raised for it and it is one 'Error
\* processing region <region>' string of errors and no entry of
\* regions_processed.
EveryRegionAccountedOnce ==
  pc = "returned" =>
    /\ DOMAIN passes = DOMAIN allowed_regions
    /\ \A n \in DOMAIN passes : passes[n] \in {"returned", "raised"}
    /\ \A r \in Range(allowed_regions) :
          /\ Occurrences(BodyList("regions_processed"), r) =
               Cardinality(PositionsOf(r, "returned"))
          /\ Occurrences(BodyList("errors"), RegionError(r, ClientError)) =
               Cardinality(PositionsOf(r, "raised"))
    /\ Range(BodyList("regions_processed")) \subseteq Range(allowed_regions)

\* C19's case: the list names us-east-1 twice and eu-west-1 once; the client
\* construction raised for the first us-east-1 and for eu-west-1.
EveryRegionAccountedOnceWitness ==
  /\ pc = "returned"
  /\ allowed_regions = <<"us-east-1", "us-east-1", "eu-west-1">>
  /\ passes = <<"raised", "returned", "raised">>
  /\ BodyList("regions_processed") = <<"us-east-1">>
  /\ Len(BodyList("errors")) = 2

====
